---- MODULE Spec2Model ----
(***************************************************************************)
(* A model of pygmsh.opencascade.geometry.Geometry                        *)
(* (src/pygmsh/opencascade/geometry.py).                                   *)
(*                                                                         *)
(* The state is the instance dictionary of one Geometry object: the seven  *)
(* lists __init__ creates, and the two attributes _BOOLEAN_ID and          *)
(* _GMSH_CODE that the methods use but __init__ never creates.  The        *)
(* variable attrs holds which of these two exist.  Python asserts are      *)
(* taken as enabled (the default interpreter mode).  That object is number *)
(* 1 of the Geometry objects of the process; models and kernel_initialized *)
(* hold what construction and __del__ of all of them do to the one gmsh    *)
(* session of the process.                                                 *)
(*                                                                         *)
(* The gmsh kernel is external: a kernel call is recorded with its         *)
(* arguments, and what it returns is an input of the step.  The variable   *)
(* last is the observation of the most recent call: its arguments, the     *)
(* kernel calls it made, how it ended and what it returned.                *)
(***************************************************************************)
EXTENDS Integers, Sequences, FiniteSets, TLC

VARIABLES
    AFTER_SYNC_QUEUE,           \* self._AFTER_SYNC_QUEUE
    EMBED_QUEUE,                \* self._EMBED_QUEUE
    COMPOUND_ENTITIES,          \* self._COMPOUND_ENTITIES
    RECOMBINE_ENTITIES,         \* self._RECOMBINE_ENTITIES
    TRANSFINITE_CURVE_QUEUE,    \* self._TRANSFINITE_CURVE_QUEUE
    TRANSFINITE_SURFACE_QUEUE,  \* self._TRANSFINITE_SURFACE_QUEUE
    SIZE_QUEUE,                 \* self._SIZE_QUEUE
    attrs,                      \* which of _BOOLEAN_ID, _GMSH_CODE the instance has
    BOOLEAN_ID,                 \* self._BOOLEAN_ID (meaningful when in attrs)
    GMSH_CODE,                  \* self._GMSH_CODE (meaningful when in attrs)
    created,                    \* entities constructed through add_<shape>
    nBooleanOps,                \* history: boolean operations called so far
    nPerformed,                 \* history: those of them that returned an entity
    last,                       \* observation of the most recent call
    models,                     \* each Geometry object of the process: where in its life
    kernel_initialized          \* gmsh is between initialize() and finalize()

queues == <<AFTER_SYNC_QUEUE, EMBED_QUEUE, COMPOUND_ENTITIES, RECOMBINE_ENTITIES,
            TRANSFINITE_CURVE_QUEUE, TRANSFINITE_SURFACE_QUEUE, SIZE_QUEUE>>

vars == <<AFTER_SYNC_QUEUE, EMBED_QUEUE, COMPOUND_ENTITIES, RECOMBINE_ENTITIES,
          TRANSFINITE_CURVE_QUEUE, TRANSFINITE_SURFACE_QUEUE, SIZE_QUEUE,
          attrs, BOOLEAN_ID, GMSH_CODE, created, nBooleanOps, nPerformed, last,
          models, kernel_initialized>>

-----------------------------------------------------------------------------
(* Bounds *)

MaxEntities == 1      \* add_<shape> calls per behaviour
MaxBooleanOps == 2    \* boolean operations per behaviour
MaxFragOperands == 2  \* operands (inputs plus tools) of one boolean_fragments call
MaxModels == 3        \* Geometry objects constructed in the process

-----------------------------------------------------------------------------
(* Entities *)

SizeQueueShapes == {"Rectangle", "Disk", "Ball", "Box", "Cone"}

CodeShapes == {"Cylinder", "Ellipsoid", "Torus", "Wedge"}

ShapeKinds == SizeQueueShapes \cup CodeShapes

Dimension(kind) ==
    CASE kind = "Point" -> 0
      [] kind = "Line" -> 1
      [] kind \in {"Rectangle", "Disk"} -> 2
      [] OTHER -> 3

\* An entity as the facade reads it: .dimension, .id, .dim_tags, .code, type(e).
Entity(kind, id) ==
    [kind |-> kind, dimension |-> Dimension(kind), id |-> id,
     dim_tags |-> <<Dimension(kind), id>>]

\* The entities a caller holds and passes as operands: one of each dimension
\* a boolean operation accepts, and a point.  The facade keeps no registry of
\* entities, so operands are inputs of the call.
Pool == {Entity("Line", 1), Entity("Rectangle", 2), Entity("Box", 3)}

Point == Entity("Point", 4)

\* A second surface, for operand lists of several entities of one dimension.
Disk == Entity("Disk", 12)

\* The id of the next entity an add_<shape> call constructs.
NextEntityId == Cardinality(Pool) + created + 2

\* SurfaceBase(id0=name, is_list=True) / VolumeBase(id0=name, is_list=True)
SurfaceBase(id0, is_list) ==
    [kind |-> "SurfaceBase", dimension |-> 2, id |-> id0, is_list |-> is_list]

VolumeBase(id0, is_list) ==
    [kind |-> "VolumeBase", dimension |-> 3, id |-> id0, is_list |-> is_list]

\* Boolean(dim_tags, operation)
Boolean(dim_tags, operation) ==
    [kind |-> "Boolean", operation |-> operation, dim_tags |-> dim_tags]

-----------------------------------------------------------------------------
(* Inputs *)

\* An optional argument: <<>> when the caller leaves it out (None), <<v>> when
\* the caller passes v.
MeshSizeArgs == {<<>>, <<5>>}

\* Duplicate-free sequences over S of length at most n.
Lists(S, n) ==
    UNION {{s \in [1..k -> S] : \A i, j \in 1..k : i # j => s[i] # s[j]} : k \in 0..n}

Range(s) == {s[i] : i \in 1..Len(s)}

\* What a kernel boolean call may return as its first value: a list of
\* result dim-tags.
KernelOuts ==
    {<<>>, <<<<3, 91>>>>, <<<<3, 92>>>>,
     <<<<3, 91>>, <<3, 91>>>>, <<<<3, 91>>, <<3, 92>>>>}

\* The Geometry objects of the process; number 1 is the one whose attributes
\* the variables above hold.
ModelIds == 1..MaxModels

\* characteristic_length_min / characteristic_length_max of the constructor.
LengthArgs == {<<>>, <<1>>}

-----------------------------------------------------------------------------
(* Initial state: Geometry.__init__ *)

Init ==
    /\ AFTER_SYNC_QUEUE = <<>>
    /\ EMBED_QUEUE = <<>>
    /\ COMPOUND_ENTITIES = <<>>
    /\ RECOMBINE_ENTITIES = <<>>
    /\ TRANSFINITE_CURVE_QUEUE = <<>>
    /\ TRANSFINITE_SURFACE_QUEUE = <<>>
    /\ SIZE_QUEUE = <<>>
    /\ attrs = {}
    /\ BOOLEAN_ID = 0
    /\ GMSH_CODE = <<>>
    /\ created = 0
    /\ nBooleanOps = 0
    /\ nPerformed = 0
    /\ last = [op |-> "__init__", args |-> <<>>, kernel_calls |-> <<"initialize">>,
               outcome |-> "ok", result |-> <<>>]
    /\ models = [m \in ModelIds |-> IF m = 1 THEN "alive" ELSE "unborn"]
    /\ kernel_initialized = TRUE

UnchangedQueues ==
    UNCHANGED <<AFTER_SYNC_QUEUE, EMBED_QUEUE, COMPOUND_ENTITIES, RECOMBINE_ENTITIES,
                TRANSFINITE_CURVE_QUEUE, TRANSFINITE_SURFACE_QUEUE, SIZE_QUEUE>>

UnchangedOtherQueues ==
    UNCHANGED <<AFTER_SYNC_QUEUE, EMBED_QUEUE, COMPOUND_ENTITIES, RECOMBINE_ENTITIES,
                TRANSFINITE_CURVE_QUEUE, TRANSFINITE_SURFACE_QUEUE>>

UnchangedModels == UNCHANGED <<models, kernel_initialized>>

Observation(op, args, kernel_calls, outcome, result) ==
    [op |-> op, args |-> args, kernel_calls |-> kernel_calls,
     outcome |-> outcome, result |-> result]

-----------------------------------------------------------------------------
(* The caller gives the instance the attributes __init__ leaves out.  The   *)
(* methods below read _BOOLEAN_ID and _GMSH_CODE; only an assignment from   *)
(* outside the class can create them.                                       *)

SetAttrs ==
    /\ attrs = {}
    /\ attrs' = {"_BOOLEAN_ID", "_GMSH_CODE"}
    /\ BOOLEAN_ID' = 0
    /\ GMSH_CODE' = <<>>
    /\ last' = Observation("setattr", <<>>, <<>>, "ok", <<>>)
    /\ UnchangedQueues
    /\ UnchangedModels
    /\ UNCHANGED <<created, nBooleanOps, nPerformed>>

-----------------------------------------------------------------------------
(* Construction and __del__ of the Geometry objects of the process.  gmsh   *)
(* is one module-level session: initialize() and finalize() take no handle  *)
(* and __init__ keeps none.                                                 *)

\* The gmsh calls of __init__: initialize(), then one option.setNumber per
\* characteristic length given; when raises, the first setNumber call made
\* raises and ends the constructor.
ConstructorCalls(lmin, lmax, raises) ==
    <<"initialize">>
    \o (IF lmin # <<>> THEN <<"Mesh.CharacteristicLengthMin">> ELSE <<>>)
    \o (IF lmax # <<>> /\ ~(raises /\ lmin # <<>>)
        THEN <<"Mesh.CharacteristicLengthMax">> ELSE <<>>)

\* Geometry(characteristic_length_min, characteristic_length_max) for another
\* object of the process.
Construct(m, lmin, lmax, raises) ==
    /\ models[m] = "unborn"
    /\ raises => (lmin # <<>> \/ lmax # <<>>)
    /\ kernel_initialized' = TRUE
    /\ models' = [models EXCEPT ![m] = IF raises THEN "failed" ELSE "alive"]
    /\ last' = Observation("__init__",
                           [model |-> m, characteristic_length_min |-> lmin,
                            characteristic_length_max |-> lmax],
                           ConstructorCalls(lmin, lmax, raises),
                           IF raises THEN "Error" ELSE "ok", <<>>)
    /\ UnchangedQueues
    /\ UNCHANGED <<attrs, BOOLEAN_ID, GMSH_CODE, created, nBooleanOps, nPerformed>>

\* __del__ of an object: it runs once, when the object is collected, also for
\* an object whose constructor raised.
Del(m) ==
    /\ models[m] \in {"alive", "failed"}
    /\ kernel_initialized' = FALSE
    /\ models' = [models EXCEPT ![m] = "deleted"]
    /\ last' = Observation("__del__", [model |-> m], <<"finalize">>, "ok", <<>>)
    /\ UnchangedQueues
    /\ UNCHANGED <<attrs, BOOLEAN_ID, GMSH_CODE, created, nBooleanOps, nPerformed>>

-----------------------------------------------------------------------------
(* synchronize *)

Synchronize ==
    /\ last' = Observation("synchronize", <<>>, <<"synchronize">>, "ok", <<>>)
    /\ UnchangedQueues
    /\ UnchangedModels
    /\ UNCHANGED <<attrs, BOOLEAN_ID, GMSH_CODE, created, nBooleanOps, nPerformed>>

-----------------------------------------------------------------------------
(* add_rectangle, add_disk, add_ball, add_box, add_cone *)

SizeQueueAfterAdd(queue, entity, mesh_size) ==
    IF mesh_size # <<>> THEN Append(queue, <<entity, mesh_size[1]>>) ELSE queue

AddSizeQueueShape(kind, mesh_size) ==
    LET entity == Entity(kind, NextEntityId) IN
    /\ created < MaxEntities
    /\ created' = created + 1
    /\ SIZE_QUEUE' = SizeQueueAfterAdd(SIZE_QUEUE, entity, mesh_size)
    /\ last' = Observation("add_shape", [kind |-> kind, mesh_size |-> mesh_size],
                           <<>>, "ok", <<entity>>)
    /\ UnchangedOtherQueues
    /\ UnchangedModels
    /\ UNCHANGED <<attrs, BOOLEAN_ID, GMSH_CODE, nBooleanOps, nPerformed>>

-----------------------------------------------------------------------------
(* add_cylinder, add_ellipsoid, add_torus, add_wedge *)

\* p.code of a constructed entity.
Code(p) == [code_of |-> p.kind, id |-> p.id]

\* These four methods have no mesh_size parameter: a mesh_size the caller
\* passes travels in **kwargs to the entity constructor, which takes it
\* (accepts) or raises TypeError.
AddCodeShape(kind, mesh_size, accepts) ==
    LET p == Entity(kind, NextEntityId)
        args == [kind |-> kind, mesh_size |-> mesh_size]
    IN
    /\ created < MaxEntities
    /\ IF mesh_size # <<>> /\ ~accepts
       THEN /\ last' = Observation("add_shape", args, <<>>, "TypeError", <<>>)
            /\ UNCHANGED <<created, GMSH_CODE>>
       ELSE /\ created' = created + 1
            /\ IF "_GMSH_CODE" \in attrs
               THEN /\ GMSH_CODE' = Append(GMSH_CODE, Code(p))
                    /\ last' = Observation("add_shape", args, <<>>, "ok", <<p>>)
               ELSE /\ GMSH_CODE' = GMSH_CODE
                    /\ last' = Observation("add_shape", args, <<>>,
                                           "AttributeError", <<>>)
    /\ UnchangedQueues
    /\ UnchangedModels
    /\ UNCHANGED <<attrs, BOOLEAN_ID, nBooleanOps, nPerformed>>

-----------------------------------------------------------------------------
(* _boolean_operation and boolean_fragments *)

LegalDimTypes == [d \in {1, 2, 3} |->
                    CASE d = 1 -> "Line" [] d = 2 -> "Surface" [] OTHER -> "Volume"]

\* f"bo{self._BOOLEAN_ID}"
Name(id) == <<"bo", id>>

\* ";".join([f"{legal_dim_type}{{{e.id}}}" for e in entities]) + ";", or ""
FormatEntities(legal_dim_type, entities) ==
    [i \in 1..Len(entities) |-> <<legal_dim_type, entities[i].id>>]

\* DeleteFlag with the marker written whatever the flag.
DeleteFlagAlways(delete) == "Delete;"

DeleteFlag(delete) == IF delete THEN "Delete;" ELSE ""

\* "%(name)s[] = %(op)s{ %(ientities)s %(idelete)s } { %(tentities)s %(tdelete)s};"
Command(name, op, ientities, idelete, tentities, tdelete) ==
    [name |-> name, op |-> op, ientities |-> ientities, idelete |-> idelete,
     tentities |-> tentities, tdelete |-> tdelete]

Composite(dim, name) ==
    IF dim = 2 THEN SurfaceBase(name, TRUE) ELSE VolumeBase(name, TRUE)

\* self._BOOLEAN_ID += 1, without the bump.
NextBooleanIdStuck(boolean_id) == boolean_id

\* self._BOOLEAN_ID += 1
NextBooleanId(boolean_id) == boolean_id + 1

\* The instance after _boolean_operation, how the call ended and what it
\* returned, in the order the statements run.
BooleanOperation(has, boolean_id, gmsh_code, operation, input_entities, tool_entities, delete_first, delete_other) ==
    LET id == NextBooleanId(boolean_id)
        End(b, c, outcome, result) ==
            [BOOLEAN_ID |-> b, GMSH_CODE |-> c, outcome |-> outcome, result |-> result]
    IN
    IF "_BOOLEAN_ID" \notin has
    THEN End(boolean_id, gmsh_code, "AttributeError", <<>>)
    ELSE IF input_entities = <<>>
    THEN End(id, gmsh_code, "IndexError", <<>>)
    ELSE IF input_entities[1].dimension \notin DOMAIN LegalDimTypes
    THEN End(id, gmsh_code, "IllegalDimension", <<>>)
    ELSE LET dim == input_entities[1].dimension
             rest == Tail(input_entities) \o tool_entities
             command == Command(Name(id), operation,
                                FormatEntities(LegalDimTypes[dim], input_entities),
                                DeleteFlag(delete_first),
                                FormatEntities(LegalDimTypes[dim], tool_entities),
                                DeleteFlag(delete_other))
         IN
         IF \E i \in 1..Len(rest) : rest[i].dimension # dim
         THEN End(id, gmsh_code, "IncompatibleDimension", <<>>)
         ELSE IF "_GMSH_CODE" \notin has
         THEN End(id, gmsh_code, "AttributeError", <<>>)
         ELSE IF LegalDimTypes[dim] = "Line"
         THEN End(id, Append(gmsh_code, command), "TypeError", <<>>)
         ELSE End(id, Append(gmsh_code, command), "ok", <<Composite(dim, Name(id))>>)

BooleanFragments(input_entities, tool_entities, delete_first, delete_other) ==
    LET r == BooleanOperation(attrs, BOOLEAN_ID, GMSH_CODE, "BooleanFragments",
                              input_entities, tool_entities, delete_first,
                              delete_other)
    IN
    /\ nBooleanOps < MaxBooleanOps
    /\ nBooleanOps' = nBooleanOps + 1
    /\ nPerformed' = IF r.outcome = "ok" THEN nPerformed + 1 ELSE nPerformed
    /\ BOOLEAN_ID' = r.BOOLEAN_ID
    /\ GMSH_CODE' = r.GMSH_CODE
    /\ last' = Observation("boolean_fragments",
                           [input_entities |-> input_entities,
                            tool_entities |-> tool_entities,
                            delete_first |-> delete_first,
                            delete_other |-> delete_other],
                           <<>>, r.outcome, r.result)
    /\ UnchangedQueues
    /\ UnchangedModels
    /\ UNCHANGED <<attrs, created>>

-----------------------------------------------------------------------------
(* boolean_intersection, boolean_union, boolean_difference *)

\* One call of gmsh.model.occ.<fn>; flags is <<removeObject, removeTool>>, or
\* <<>> when the call passes neither; returned is the kernel's first value.
KernelCall(fn, objects, tools, flags, returned) ==
    [fn |-> fn, objects |-> objects, tools |-> tools, flags |-> flags,
     returned |-> returned]

\* all(out[0] == item for item in out)
AllEqualFirst(out) == \A i \in 1..Len(out) : out[i] = out[1]

\* FoldStep with the running result never replaced by the kernel's answer.
FoldStepNoCarry(ent, e, out) ==
    LET call == KernelCall("intersect", <<ent>>, <<e.dim_tags>>, <<TRUE, TRUE>>, out) IN
    IF ~AllEqualFirst(out)
    THEN [outcome |-> "InconsistentBooleanResult", ent |-> ent, call |-> call]
    ELSE IF out = <<>>
    THEN [outcome |-> "IndexError", ent |-> ent, call |-> call]
    ELSE [outcome |-> "ok", ent |-> ent, call |-> call]

\* One pass of the loop of boolean_intersection: ent is the running result,
\* e the operand of this pass, out what the kernel returns for it.
FoldStep(ent, e, out) ==
    LET call == KernelCall("intersect", <<ent>>, <<e.dim_tags>>, <<TRUE, TRUE>>, out) IN
    IF ~AllEqualFirst(out)
    THEN [outcome |-> "InconsistentBooleanResult", ent |-> ent, call |-> call]
    ELSE IF out = <<>>
    THEN [outcome |-> "IndexError", ent |-> ent, call |-> call]
    ELSE [outcome |-> "ok", ent |-> out[1], call |-> call]

\* The loop: rest holds the operands still to come, outs the kernel's answers
\* call by call, calls the kernel calls made so far.
RECURSIVE IntersectFold(_, _, _, _)
IntersectFold(ent, rest, outs, calls) ==
    IF rest = <<>>
    THEN [outcome |-> "ok", ent |-> <<ent>>, calls |-> calls]
    ELSE LET step == FoldStep(ent, Head(rest), Head(outs)) IN
         IF step.outcome # "ok"
         THEN [outcome |-> step.outcome, ent |-> <<>>, calls |-> Append(calls, step.call)]
         ELSE IntersectFold(step.ent, Tail(rest), Tail(outs), Append(calls, step.call))

\* IntersectionResult with the loop running over entities, not entities[1:]:
\* the first operand is intersected with itself before the others.
IntersectionResultNoSlice(entities, outs) ==
    IF entities = <<>>
    THEN [outcome |-> "IndexError", calls |-> <<>>, result |-> <<>>]
    ELSE LET first == FoldStep(entities[1].dim_tags, entities[1],
                               <<entities[1].dim_tags>>)
             f == IntersectFold(first.ent, Tail(entities), outs, <<first.call>>)
         IN
         [outcome |-> f.outcome, calls |-> f.calls,
          result |-> IF f.outcome = "ok"
                     THEN <<Boolean(f.ent, "Intersection")>> ELSE <<>>]

IntersectionResult(entities, outs) ==
    IF entities = <<>>
    THEN [outcome |-> "IndexError", calls |-> <<>>, result |-> <<>>]
    ELSE LET f == IntersectFold(entities[1].dim_tags, Tail(entities), outs, <<>>) IN
         [outcome |-> f.outcome, calls |-> f.calls,
          result |-> IF f.outcome = "ok"
                     THEN <<Boolean(f.ent, "Intersection")>> ELSE <<>>]

BooleanIntersection(entities, outs) ==
    LET r == IntersectionResult(entities, outs) IN
    /\ nBooleanOps < MaxBooleanOps
    /\ nBooleanOps' = nBooleanOps + 1
    /\ nPerformed' = IF r.outcome = "ok" THEN nPerformed + 1 ELSE nPerformed
    /\ last' = Observation("boolean_intersection", [entities |-> entities],
                           r.calls, r.outcome, r.result)
    /\ UnchangedQueues
    /\ UnchangedModels
    /\ UNCHANGED <<attrs, BOOLEAN_ID, GMSH_CODE, created>>

\* UnionResult with the kernel synchronized after the fuse call.
UnionResultSynced(entities, out) ==
    IF entities = <<>>
    THEN [outcome |-> "IndexError", calls |-> <<>>, result |-> <<>>]
    ELSE [outcome |-> "ok",
          calls |-> <<KernelCall("fuse", <<entities[1].dim_tags>>,
                                 [i \in 1..(Len(entities) - 1) |->
                                    entities[i + 1].dim_tags],
                                 <<TRUE, TRUE>>, out),
                      KernelCall("synchronize", <<>>, <<>>, <<>>, <<>>)>>,
          result |-> <<Boolean(out, "Union")>>]

\* UnionResult with every operand, the first too, passed as a tool.
UnionResultAllTools(entities, out) ==
    IF entities = <<>>
    THEN [outcome |-> "IndexError", calls |-> <<>>, result |-> <<>>]
    ELSE [outcome |-> "ok",
          calls |-> <<KernelCall("fuse", <<entities[1].dim_tags>>,
                                 [i \in 1..Len(entities) |-> entities[i].dim_tags],
                                 <<TRUE, TRUE>>, out)>>,
          result |-> <<Boolean(out, "Union")>>]

UnionResult(entities, out) ==
    IF entities = <<>>
    THEN [outcome |-> "IndexError", calls |-> <<>>, result |-> <<>>]
    ELSE [outcome |-> "ok",
          calls |-> <<KernelCall("fuse", <<entities[1].dim_tags>>,
                                 [i \in 1..(Len(entities) - 1) |->
                                    entities[i + 1].dim_tags],
                                 <<TRUE, TRUE>>, out)>>,
          result |-> <<Boolean(out, "Union")>>]

BooleanUnion(entities, out) ==
    LET r == UnionResult(entities, out) IN
    /\ nBooleanOps < MaxBooleanOps
    /\ nBooleanOps' = nBooleanOps + 1
    /\ nPerformed' = IF r.outcome = "ok" THEN nPerformed + 1 ELSE nPerformed
    /\ last' = Observation("boolean_union", [entities |-> entities],
                           r.calls, r.outcome, r.result)
    /\ UnchangedQueues
    /\ UnchangedModels
    /\ UNCHANGED <<attrs, BOOLEAN_ID, GMSH_CODE, created>>

\* DifferenceResult with the check on the number of result groups left out.
DifferenceResultUnchecked(d0, d1, out) ==
    [outcome |-> "ok",
     calls |-> <<KernelCall("cut", d0.dim_tags, d1.dim_tags, <<>>, out)>>,
     result |-> <<Boolean(out, "Difference")>>]

DifferenceResult(d0, d1, out) ==
    LET calls == <<KernelCall("cut", d0.dim_tags, d1.dim_tags, <<>>, out)>> IN
    IF Len(out) = 1
    THEN [outcome |-> "ok", calls |-> calls, result |-> <<Boolean(out, "Difference")>>]
    ELSE [outcome |-> "InconsistentBooleanResult", calls |-> calls, result |-> <<>>]

BooleanDifference(d0, d1, out) ==
    LET r == DifferenceResult(d0, d1, out) IN
    /\ nBooleanOps < MaxBooleanOps
    /\ nBooleanOps' = nBooleanOps + 1
    /\ nPerformed' = IF r.outcome = "ok" THEN nPerformed + 1 ELSE nPerformed
    /\ last' = Observation("boolean_difference", [d0 |-> d0, d1 |-> d1],
                           r.calls, r.outcome, r.result)
    /\ UnchangedQueues
    /\ UnchangedModels
    /\ UNCHANGED <<attrs, BOOLEAN_ID, GMSH_CODE, created>>

-----------------------------------------------------------------------------------------------------------------------------------------------------
(* Specifications *)

\* Operand lists of one boolean_fragments call: duplicate-free, no entity on
\* both sides, at most MaxFragOperands entities in all.
FragmentOperands ==
    {p \in Lists(Pool \cup {Point}, MaxFragOperands)
              \X Lists(Pool \cup {Point}, MaxFragOperands) :
        /\ Len(p[1]) + Len(p[2]) <= MaxFragOperands
        /\ Range(p[1]) \cap Range(p[2]) = {}}

\* Operand lists of boolean_union and boolean_intersection: the entities of
\* Pool, any number of them in any order.
OperandLists == Lists(Pool, Cardinality(Pool))

ShortLists == Lists(Pool, 1)

\* The kernel's answers to the n calls of one boolean_intersection, one per
\* call; after an answer that ends the loop no further call is made, so the
\* answers behind it are fixed.
EndsLoop(out) == out = <<>> \/ ~AllEqualFirst(out)

KernelOutsFor ==
    [n \in 0..Cardinality(Pool) |->
        {outs \in [1..n -> KernelOuts] :
            \A i, j \in 1..n : (i < j /\ EndsLoop(outs[i])) => outs[j] = <<>>}]

AddShapeStep ==
    \/ \E kind \in SizeQueueShapes, mesh_size \in MeshSizeArgs :
          AddSizeQueueShape(kind, mesh_size)
    \/ \E kind \in CodeShapes, mesh_size \in MeshSizeArgs, accepts \in BOOLEAN :
          AddCodeShape(kind, mesh_size, accepts)

FragmentsStep(operands) ==
    \E p \in operands, delete_first \in BOOLEAN, delete_other \in BOOLEAN :
        BooleanFragments(p[1], p[2], delete_first, delete_other)

IntersectionStep(lists) ==
    \E entities \in lists :
        \E outs \in KernelOutsFor[IF entities = <<>> THEN 0 ELSE Len(entities) - 1] :
            BooleanIntersection(entities, outs)

UnionStep(lists) ==
    \E entities \in lists, out \in KernelOuts : BooleanUnion(entities, out)

DifferenceStep ==
    \E d0 \in Pool, d1 \in Pool, out \in KernelOuts : BooleanDifference(d0, d1, out)

\* The whole facade, with operand lists of at most one entity.
Next ==
    \/ SetAttrs
    \/ Synchronize
    \/ AddShapeStep
    \/ FragmentsStep(FragmentOperands)
    \/ IntersectionStep(ShortLists)
    \/ UnionStep(ShortLists)
    \/ DifferenceStep

Spec == Init /\ [][Next]_vars

\* boolean_fragments with its full operand lists.
NextFragments ==
    \/ SetAttrs
    \/ FragmentsStep(FragmentOperands)

SpecFragments == Init /\ [][NextFragments]_vars

\* The three operations that call the kernel directly, with every operand
\* list over Pool.
NextDirect ==
    \/ SetAttrs
    \/ IntersectionStep(OperandLists)
    \/ UnionStep(OperandLists)
    \/ DifferenceStep

SpecDirect == Init /\ [][NextDirect]_vars

\* Operand lists of boolean_fragments that the dimension check lets through:
\* one or two inputs and at most one tool, all of one dimension out of 1, 2, 3.
CommandOperands ==
    {p \in Lists(Pool \cup {Disk}, 2) \X Lists(Pool \cup {Disk}, 1) :
        /\ p[1] # <<>>
        /\ Range(p[1]) \cap Range(p[2]) = {}
        /\ \A e \in Range(p[1]) \cup Range(p[2]) : e.dimension = p[1][1].dimension}

\* boolean_fragments with operands that reach the command emission.
NextCommands ==
    \/ SetAttrs
    \/ FragmentsStep(CommandOperands)

SpecCommands == Init /\ [][NextCommands]_vars

ConstructStep ==
    \E m \in ModelIds, lmin \in LengthArgs, lmax \in LengthArgs, raises \in BOOLEAN :
        Construct(m, lmin, lmax, raises)

DelStep == \E m \in ModelIds : Del(m)

\* The lives of the Geometry objects of one process.
NextSession ==
    \/ ConstructStep
    \/ DelStep

SpecSession == Init /\ [][NextSession]_vars

-----------------------------------------------------------------------------
(* Properties *)

IsFragments(obs) == obs.op = "boolean_fragments"

FailedValidation(obs) ==
    IsFragments(obs) /\ obs.outcome \in {"IllegalDimension", "IncompatibleDimension"}

\* C1: a boolean_fragments call that fails dimension validation leaves the
\* boolean id counter, every deferred queue and the command stream exactly as
\* they were before the call.
C1_FailedValidationChangesNothing ==
    [][FailedValidation(last') =>
          /\ BOOLEAN_ID' = BOOLEAN_ID
          /\ GMSH_CODE' = GMSH_CODE
          /\ queues' = queues]_vars

\* What the dimension check of a call with these operands has to find.
IllegalFirst(input_entities) == input_entities[1].dimension \notin {1, 2, 3}

IncompatibleLater(input_entities, tool_entities) ==
    \/ \E i \in 2..Len(input_entities) :
          input_entities[i].dimension # input_entities[1].dimension
    \/ \E i \in 1..Len(tool_entities) :
          tool_entities[i].dimension # input_entities[1].dimension

\* C2: with a non-empty input list, boolean_fragments fails with
\* IllegalDimension exactly when the first input's dimension is not 1, 2 or 3,
\* otherwise with IncompatibleDimension exactly when a later input or a tool
\* has another dimension than the first input, and otherwise it does not fail
\* in validation.
C2_ValidationOutcome ==
    (IsFragments(last) /\ last.args.input_entities # <<>>) =>
        LET illegal == IllegalFirst(last.args.input_entities)
            incompatible == IncompatibleLater(last.args.input_entities,
                                              last.args.tool_entities)
        IN
        /\ (last.outcome = "IllegalDimension") <=> illegal
        /\ (last.outcome = "IncompatibleDimension") <=> (~illegal /\ incompatible)

\* C3: the Nth boolean operation performed on a model, of whichever kind, is
\* named using N: a composite that boolean_fragments returns has the id
\* bo<N>, N counting the boolean operations up to and including this call
\* (those that returned an entity, or all that were called).
C3_NthOperationNamedN ==
    (IsFragments(last) /\ last.outcome = "ok") =>
        \/ last.result[1].id = <<"bo", nPerformed>>
        \/ last.result[1].id = <<"bo", nBooleanOps>>

\* The commands boolean operations put into the command stream (add_cylinder
\* and its like put p.code there).
IsCommand(c) == "name" \in DOMAIN c

\* C4: the ids of boolean-operation outputs strictly increase in call order
\* and are never reused: the names in the command stream strictly increase,
\* none is above the counter, and a composite boolean_fragments returns
\* carries the name of the newest command, so no two composites share a name.
C4_IdsStrictlyIncrease ==
    /\ \A i, j \in DOMAIN GMSH_CODE :
          (i < j /\ IsCommand(GMSH_CODE[i]) /\ IsCommand(GMSH_CODE[j])) =>
              GMSH_CODE[i].name[2] < GMSH_CODE[j].name[2]
    /\ \A i \in DOMAIN GMSH_CODE :
          IsCommand(GMSH_CODE[i]) =>
              (GMSH_CODE[i].name[1] = "bo" /\ GMSH_CODE[i].name[2] <= BOOLEAN_ID)
    /\ (IsFragments(last) /\ last.outcome = "ok") =>
          /\ GMSH_CODE # <<>>
          /\ last.result[1].id = GMSH_CODE[Len(GMSH_CODE)].name
          /\ last.result[1].id = <<"bo", BOOLEAN_ID>>

\* Two boolean_fragments calls on one model have each returned a composite.
C4_TwoCompositesReturned ==
    /\ IsFragments(last) /\ last.outcome = "ok"
    /\ Len(GMSH_CODE) = 2
    /\ GMSH_CODE[1].ientities[1][1] # "Line"

IsIntersection(obs) == obs.op = "boolean_intersection"

\* C5: in boolean_intersection, a kernel intersect call that returns zero
\* result groups or more than one makes the call fail with
\* InconsistentBooleanResult, is the last kernel call of the operation, and
\* no entity is returned.
C5_FragmentedStepFails ==
    IsIntersection(last) =>
        \A k \in DOMAIN last.kernel_calls :
            Len(last.kernel_calls[k].returned) # 1 =>
                /\ last.outcome = "InconsistentBooleanResult"
                /\ k = Len(last.kernel_calls)
                /\ last.result = <<>>

IsDifference(obs) == obs.op = "boolean_difference"

\* C6: boolean_difference(A, B) makes exactly one kernel cut call, of A's
\* dim-tags against B's; it returns an entity labeled "Difference" wrapping
\* the kernel's answer when that answer is exactly one result group, and fails
\* with InconsistentBooleanResult, returning nothing, when it is zero groups
\* or two or more.
C6_DifferenceNeedsOneGroup ==
    IsDifference(last) =>
        /\ Len(last.kernel_calls) = 1
        /\ last.kernel_calls[1].fn = "cut"
        /\ last.kernel_calls[1].objects = last.args.d0.dim_tags
        /\ last.kernel_calls[1].tools = last.args.d1.dim_tags
        /\ IF Len(last.kernel_calls[1].returned) = 1
           THEN /\ last.outcome = "ok"
                /\ Len(last.result) = 1
                /\ last.result[1].operation = "Difference"
                /\ last.result[1].dim_tags = last.kernel_calls[1].returned
           ELSE /\ last.outcome = "InconsistentBooleanResult"
                /\ last.result = <<>>

\* boolean_difference has failed on a kernel answer of two result groups.
C6_TwoGroupsRejected ==
    /\ IsDifference(last)
    /\ Len(last.kernel_calls[1].returned) = 2
    /\ last.outcome = "InconsistentBooleanResult"

\* C7: boolean_intersection over n >= 1 operands, every kernel answer being a
\* single group, makes exactly n-1 kernel intersect calls in list order as a
\* left fold: call k has the answer of call k-1 (for k = 1 the first operand's
\* dim-tag) as its object and the dim-tag of operand k+1 as its tool, both
\* removal flags set, and the "Intersection" entity returned wraps the answer
\* of the last call.
C7_IntersectionIsLeftFold ==
    LET entities == last.args.entities
        calls == last.kernel_calls
        n == Len(entities)
    IN
    (/\ IsIntersection(last)
     /\ n >= 1
     /\ \A k \in DOMAIN calls : Len(calls[k].returned) = 1) =>
        /\ Len(calls) = n - 1
        /\ \A k \in 1..(n - 1) :
              /\ calls[k].fn = "intersect"
              /\ calls[k].objects =
                    <<IF k = 1 THEN entities[1].dim_tags ELSE calls[k - 1].returned[1]>>
              /\ calls[k].tools = <<entities[k + 1].dim_tags>>
              /\ calls[k].flags = <<TRUE, TRUE>>
        /\ last.outcome = "ok"
        /\ Len(last.result) = 1
        /\ last.result[1].operation = "Intersection"
        /\ last.result[1].dim_tags =
              <<IF n = 1 THEN entities[1].dim_tags ELSE calls[n - 1].returned[1]>>

\* boolean_intersection of three operands has returned after two kernel calls
\* with different answers.
C7_ThreeOperandsFolded ==
    /\ IsIntersection(last)
    /\ Len(last.args.entities) = 3
    /\ last.outcome = "ok"
    /\ Len(last.kernel_calls) = 2
    /\ last.kernel_calls[1].returned # last.kernel_calls[2].returned

\* C8: boolean_intersection([A]) makes no kernel call, leaves the id counter,
\* the queues and the command stream as they were, and returns an entity
\* labeled "Intersection" whose dim-tag is A's dim-tag.
C8_SingleOperandIsIdentity ==
    [][(IsIntersection(last') /\ Len(last'.args.entities) = 1) =>
          /\ last'.kernel_calls = <<>>
          /\ last'.outcome = "ok"
          /\ Len(last'.result) = 1
          /\ last'.result[1].operation = "Intersection"
          /\ last'.result[1].dim_tags = <<last'.args.entities[1].dim_tags>>
          /\ UNCHANGED <<attrs, BOOLEAN_ID, GMSH_CODE>>
          /\ queues' = queues]_vars

\* boolean_intersection([A]) has returned on a model that has an id counter
\* and a command stream.
C8_SingleOperandReturned ==
    /\ IsIntersection(last)
    /\ Len(last.args.entities) = 1
    /\ last.outcome = "ok"
    /\ attrs # {}

IsAddShape(obs) == obs.op = "add_shape"

\* C9: for each of the nine shape kinds, add_<shape> with mesh_size = m
\* appends exactly the entry (returned entity, m) to the size queue, and
\* without mesh_size leaves the size queue alone; either way the other queues
\* and the command stream stay as they were and no kernel command is issued.
C9_AddShapeOnlyQueuesSize ==
    [][IsAddShape(last') =>
          /\ last'.kernel_calls = <<>>
          /\ IF last'.args.mesh_size # <<>>
             THEN /\ Len(last'.result) = 1
                  /\ SIZE_QUEUE' = Append(SIZE_QUEUE,
                                          <<last'.result[1], last'.args.mesh_size[1]>>)
             ELSE SIZE_QUEUE' = SIZE_QUEUE
          /\ UNCHANGED <<AFTER_SYNC_QUEUE, EMBED_QUEUE, COMPOUND_ENTITIES,
                         RECOMBINE_ENTITIES, TRANSFINITE_CURVE_QUEUE,
                         TRANSFINITE_SURFACE_QUEUE>>
          /\ UNCHANGED <<attrs, GMSH_CODE>>]_vars

IsUnion(obs) == obs.op = "boolean_union"

\* What C10 says of one boolean_union call: one kernel fuse call, the first
\* operand as object, the others as tools, both removal flags set, and a
\* "Union" entity returned that wraps the kernel's answer as it is.
OneFuseOverAll(obs) ==
    LET entities == obs.args.entities IN
    /\ Len(obs.kernel_calls) = 1
    /\ obs.kernel_calls[1].fn = "fuse"
    /\ obs.kernel_calls[1].objects = <<entities[1].dim_tags>>
    /\ obs.kernel_calls[1].tools =
          [i \in 1..(Len(entities) - 1) |-> entities[i + 1].dim_tags]
    /\ obs.kernel_calls[1].flags = <<TRUE, TRUE>>
    /\ obs.outcome = "ok"
    /\ Len(obs.result) = 1
    /\ obs.result[1].operation = "Union"
    /\ obs.result[1].dim_tags = obs.kernel_calls[1].returned

\* C10 as stated: boolean_union over any operand list makes exactly one
\* kernel fuse call over all operands and returns the "Union" entity.
C10_UnionOverAnyList ==
    IsUnion(last) => OneFuseOverAll(last)

\* C10 as amended: boolean_union over any non-empty operand list makes
\* exactly one kernel fuse call (first operand as object, the remaining ones
\* as tools, both removal flags set) and returns a "Union" entity wrapping the
\* kernel's answer unmodified.
C10_UnionOverNonEmptyList ==
    (IsUnion(last) /\ last.args.entities # <<>>) => OneFuseOverAll(last)

\* boolean_union of three operands has returned.
C10_ThreeOperandsFused ==
    /\ IsUnion(last)
    /\ Len(last.args.entities) = 3
    /\ last.outcome = "ok"
    /\ Len(last.kernel_calls[1].returned) = 2

\* The operands a boolean operation has had deleted: those of a boolean_union
\* that returned, those of the fold steps of a boolean_intersection that
\* returned, and those on a side of a performed boolean_fragments whose delete
\* flag is set.
DeletedBy(obs) ==
    IF IsUnion(obs) /\ obs.outcome = "ok"
    THEN Range(obs.args.entities)
    ELSE IF IsIntersection(obs) /\ obs.outcome = "ok" /\ obs.kernel_calls # <<>>
    THEN Range(obs.args.entities)
    ELSE IF IsFragments(obs) /\ obs.outcome = "ok"
    THEN (IF obs.args.delete_first THEN Range(obs.args.input_entities) ELSE {})
         \cup (IF obs.args.delete_other THEN Range(obs.args.tool_entities) ELSE {})
    ELSE {}

\* The entities a boolean operation is given.
ReferencedBy(obs) ==
    IF IsUnion(obs) \/ IsIntersection(obs)
    THEN Range(obs.args.entities)
    ELSE IF IsFragments(obs)
    THEN Range(obs.args.input_entities) \cup Range(obs.args.tool_entities)
    ELSE IF IsDifference(obs)
    THEN {obs.args.d0, obs.args.d1}
    ELSE {}

\* C11: once a boolean operation has deleted an entity, a later operation
\* that references that entity fails with UseAfterDelete, makes no kernel call
\* and puts nothing into the command stream (stated for the operation that
\* comes right after the deleting one).
C11_UseAfterDeleteFails ==
    [][(DeletedBy(last) \cap ReferencedBy(last') # {}) =>
          /\ last'.outcome = "UseAfterDelete"
          /\ last'.kernel_calls = <<>>
          /\ GMSH_CODE' = GMSH_CODE]_vars

\* C12: every model acquires the kernel session once, at construction, and
\* releases it once, at teardown, also when construction failed after the
\* session was acquired: a teardown releases a session that is still held (no
\* session is released twice) and leaves every model that is still alive with
\* its session.
C12_SessionPerModel ==
    [][last'.op = "__del__" =>
          /\ kernel_initialized
          /\ \A m \in ModelIds : models'[m] = "alive" => kernel_initialized']_vars

\* Operands that the dimension check of _boolean_operation lets through.
PassesValidation(args) ==
    /\ args.input_entities # <<>>
    /\ ~IllegalFirst(args.input_entities)
    /\ ~IncompatibleLater(args.input_entities, args.tool_entities)

\* C13: a boolean_fragments call on operands of dimension 2 or 3 that pass
\* validation allocates exactly one new id N, appends exactly one command,
\* named bo<N>, to the command stream, and returns a composite with the id
\* bo<N> and is_list = true, Surface-typed for dimension 2 and Volume-typed
\* for dimension 3.
C13_ValidCallEmitsOneCommand ==
    [][(/\ IsFragments(last')
        /\ PassesValidation(last'.args)
        /\ last'.args.input_entities[1].dimension \in {2, 3}) =>
          /\ BOOLEAN_ID' = BOOLEAN_ID + 1
          /\ Len(GMSH_CODE') = Len(GMSH_CODE) + 1
          /\ SubSeq(GMSH_CODE', 1, Len(GMSH_CODE)) = GMSH_CODE
          /\ GMSH_CODE'[Len(GMSH_CODE')].name = <<"bo", BOOLEAN_ID'>>
          /\ Len(last'.result) = 1
          /\ last'.result[1].id = <<"bo", BOOLEAN_ID'>>
          /\ last'.result[1].is_list = TRUE
          /\ last'.result[1].kind =
                IF last'.args.input_entities[1].dimension = 2
                THEN "SurfaceBase" ELSE "VolumeBase"]_vars

C15_SizeQueueIsCallHistory ==
    [][/\ IF IsAddShape(last') /\ last'.args.mesh_size # <<>> /\ last'.outcome = "ok"
          THEN SIZE_QUEUE' = Append(SIZE_QUEUE,
                                    <<last'.result[1], last'.args.mesh_size[1]>>)
          ELSE SIZE_QUEUE' = SIZE_QUEUE
       /\ UNCHANGED <<AFTER_SYNC_QUEUE, EMBED_QUEUE, COMPOUND_ENTITIES,
                      RECOMBINE_ENTITIES, TRANSFINITE_CURVE_QUEUE,
                      TRANSFINITE_SURFACE_QUEUE>>]_vars

IsDirect(obs) == IsIntersection(obs) \/ IsUnion(obs) \/ IsDifference(obs)

\* C16: the kernel's synchronize is invoked only by the public synchronize
\* operation, exactly once per call to it, and never by model construction,
\* an add_<shape> call or a boolean operation.
C16_NoImplicitSynchronize ==
    IF last.op = "synchronize"
    THEN last.kernel_calls = <<"synchronize">>
    ELSE IF IsDirect(last)
    THEN \A k \in DOMAIN last.kernel_calls : last.kernel_calls[k].fn # "synchronize"
    ELSE \A k \in DOMAIN last.kernel_calls : last.kernel_calls[k] # "synchronize"

\* synchronize has been called on a model that has had an entity added and a
\* boolean operation performed.
C16_SynchronizedAfterWork ==
    /\ last.op = "synchronize"
    /\ created >= 1
    /\ nPerformed >= 1

\* C17: a boolean_fragments call either returns a composite entity or leaves
\* the id counter and the command stream unchanged (stated for the calls whose
\* operands pass validation, those of dimension 1 among them).
C17_ReturnsOrChangesNothing ==
    [][(IsFragments(last') /\ PassesValidation(last'.args)) =>
          \/ last'.result # <<>>
          \/ (BOOLEAN_ID' = BOOLEAN_ID /\ GMSH_CODE' = GMSH_CODE)]_vars

\* C18: model construction initialises every piece of state a public
\* operation reads or updates, so no operation hits a missing attribute, and
\* the first boolean_fragments call that returns is named bo1.
C18_ConstructionInitialisesState ==
    /\ last.outcome # "AttributeError"
    /\ (IsFragments(last) /\ last.outcome = "ok" /\ nBooleanOps = 1) =>
          last.result[1].id = <<"bo", 1>>

====
